---- MODULE Spec2Model ----
(***************************************************************************)
(* A model of pybranchback's Repository (src/pybranchback/repository.py):  *)
(* the object store with its delta envelopes, the path -> digest cache,    *)
(* the snapshot catalog, the branch refs and HEAD, and the operations      *)
(* snapshot, create_branch, checkout and switch_branch.                    *)
(*                                                                         *)
(* Every string and byte string of the program (file contents, object     *)
(* files, digests, branch names, the HEAD file) is a sequence of tokens,   *)
(* so that any two of them can be compared, as the program compares a      *)
(* HEAD value with a branch name or with a digest.                         *)
(*                                                                         *)
(* The process runs with the repository root as its working directory     *)
(* (command_handler.py passes os.getcwd() as root_dir), so the paths the   *)
(* code joins with root_dir and the ones it opens relative to the working  *)
(* directory name the same files; the platform is the one create_repo is   *)
(* written for (ctypes.windll is present).                                 *)
(***************************************************************************)
EXTENDS Integers, Sequences, FiniteSets, TLC

VARIABLES
    wt,         \* working tree: [dirs : set of directory paths, files : path -> bytes]
    head,       \* content of .pbb/HEAD
    refs,       \* .pbb/refs/heads : branch name -> content of the ref file
    catalog,    \* rows of the snapshots table, in id order
    store,      \* .pbb/objects : digest -> bytes of the object file
    cache,      \* self.objhashcache of the open Repository instance
    diskCache,  \* the pickled mapping in .pbb/objhashcache
    calls,      \* the number of calls made on the repository so far
    last        \* the last call: operation, arguments, return value, exception

vars == <<wt, head, refs, catalog, store, cache, diskCache, calls, last>>

(***************************************************************************)
(* Bounds                                                                  *)
(***************************************************************************)
MaxCalls == 4

(***************************************************************************)
(* The universe of names                                                   *)
(***************************************************************************)
REPO_DIR == ".pbb"
BranchNames == {<<"master">>, <<"dev">>}
Contents == {<<"1">>, <<"2">>}          \* the byte strings a working file can hold
AllFiles == {"a"}                       \* the file paths of the working tree
AllDirs == {"d"}                        \* its directories, besides the root and .pbb
WalkOrder == <<".pbb", "a", "d">>       \* the order in which os.walk lists names

EmptyMap == [k \in {} |-> <<>>]
Put(m, k, v) == [x \in DOMAIN m \cup {k} |-> IF x = k THEN v ELSE m[x]]
NoBytes == <<>>
NoChanges == <<"No changes to repository">>

(***************************************************************************)
(* utils.py                                                                *)
(***************************************************************************)
posixjoin(directory, name) ==
    IF directory = "." THEN name ELSE directory \o "/" \o name

InSeq(x, s) == \E i \in 1..Len(s) : s[i] = x

list_directories(tree, directory, blacklist) ==
    SelectSeq(WalkOrder, LAMBDA f :
        posixjoin(directory, f) \in tree.dirs /\ ~InSeq(f, blacklist))

list_files(tree, directory) ==
    SelectSeq(WalkOrder, LAMBDA f : posixjoin(directory, f) \in DOMAIN tree.files)

LowerTok(t) ==
    CASE t = "TREE" -> "tree"
      [] t = "BLOB" -> "blob"
      [] t = "A" -> "a"
      [] t = "D" -> "d"
      [] OTHER -> t

Lower(s) == [i \in 1..Len(s) |-> LowerTok(s[i])]

StartsWith(s, p) == Len(p) <= Len(s) /\ SubSeq(s, 1, Len(p)) = p

get_matches(match_string, iter_strings) ==
    LET hit(x) == StartsWith(Lower(x), Lower(match_string))
        low == [i \in 1..Len(iter_strings) |-> Lower(iter_strings[i])]
    IN  SelectSeq(low, hit)

(***************************************************************************)
(* Hashing.  SHA-1 is modelled as a collision-free function whose digests  *)
(* are token sequences: no two payloads share a digest, no digest is a     *)
(* proper prefix of another, and distinct digests may share a prefix.      *)
(***************************************************************************)
_hash_diget(payload) == <<"#">> \o payload \o <<"$">>

(***************************************************************************)
(* bindifflib and pickle.  A patch from src to dst rebuilds dst when it    *)
(* is applied to src and fails on any other input.                         *)
(***************************************************************************)
IndexOf(s, tok) ==
    CHOOSE i \in 1..Len(s) : s[i] = tok /\ \A j \in 1..(i - 1) : s[j] # tok

bsdiff(src, dst) == <<"bsdiff">> \o src \o <<"|">> \o dst

diff(compress, reference) == bsdiff(compress, reference)

patch(patch_bytes, reference) ==
    LET i == IndexOf(patch_bytes, "|")
        src == SubSeq(patch_bytes, 2, i - 1)
        dst == SubSeq(patch_bytes, i + 1, Len(patch_bytes))
    IN  IF src = reference THEN [exc |-> "", bytes |-> dst]
        ELSE [exc |-> "CorruptPatch", bytes |-> NoBytes]

dumps(obj_hash, patch_bytes) == <<"pickle">> \o obj_hash \o <<"|">> \o patch_bytes

IsPickle(content) == Len(content) > 0 /\ content[1] = "pickle"

loads(content) ==
    LET i == IndexOf(content, "|")
    IN  <<SubSeq(content, 2, i - 1), SubSeq(content, i + 1, Len(content))>>

(***************************************************************************)
(* The object store                                                        *)
(***************************************************************************)
\* _read_object: the bytes of the object obj_hash, rebuilt from its delta
\* when the file does not hash to its name.  Python's recursion has no
\* memory of the digests it is reading: a chain that comes back to a digest
\* already being read recurses until RecursionError.
RECURSIVE ReadFrom(_, _, _)
ReadFrom(obj_hash, objects, reading) ==
    IF obj_hash \notin DOMAIN objects
    THEN [exc |-> "FileNotFoundError", bytes |-> NoBytes]
    ELSE LET content == objects[obj_hash]
         IN  IF obj_hash # _hash_diget(content)
             THEN IF ~IsPickle(content)
                  THEN [exc |-> "UnpicklingError", bytes |-> NoBytes]
                  ELSE LET patch_tuple == loads(content)
                       IN  IF patch_tuple[1] \in reading \cup {obj_hash}
                           THEN [exc |-> "RecursionError", bytes |-> NoBytes]
                           ELSE LET ref_content ==
                                        ReadFrom(patch_tuple[1], objects,
                                                 reading \cup {obj_hash})
                                IN  IF ref_content.exc # ""
                                    THEN ref_content
                                    ELSE patch(patch_tuple[2], ref_content.bytes)
             ELSE [exc |-> "", bytes |-> content]

_read_object(obj_hash, objects) == ReadFrom(obj_hash, objects, {})

\* _delta_compress: what _save_node is to write for obj_path, or nothing
\* (none) when the path's cached digest is obj_hash.  DeltaAgainst is its
\* tail, once the cached object ref has been read.
DeltaAgainst(obj_hash, obj_content, ref) ==
    IF ref.exc # ""
    THEN [exc |-> ref.exc, none |-> FALSE, bytes |-> NoBytes]
    ELSE [exc |-> "", none |-> FALSE,
          bytes |-> dumps(obj_hash, diff(obj_content, ref.bytes))]

_delta_compress(obj_path, obj_hash, obj_content, st) ==
    IF obj_path \notin DOMAIN st.cache
    THEN [exc |-> "", none |-> FALSE, bytes |-> obj_content]
    ELSE IF st.cache[obj_path] = obj_hash
    THEN [exc |-> "", none |-> TRUE, bytes |-> NoBytes]
    ELSE DeltaAgainst(obj_hash, obj_content,
                      _read_object(st.cache[obj_path], st.store))

\* a variant that records the digest of a path without writing the object
WriteNodeCacheOnly(path, digest, final_content, st) ==
    IF final_content.exc # ""
    THEN [st |-> [st EXCEPT !.exc = final_content.exc], hash |-> NoBytes]
    ELSE IF final_content.none
    THEN [st |-> st, hash |-> digest]
    ELSE [st |-> [st EXCEPT !.cache = Put(st.cache, path, digest)],
          hash |-> digest]

\* _save_node: st is the object store and the in-memory cache so far, with
\* the exception that is propagating, if any; the result is st afterwards
\* and the digest returned.  WriteNode is its tail, once final_content is
\* known.
WriteNode(path, digest, final_content, st) ==
    IF final_content.exc # ""
    THEN [st |-> [st EXCEPT !.exc = final_content.exc], hash |-> NoBytes]
    ELSE IF final_content.none
    THEN [st |-> st, hash |-> digest]
    ELSE [st |-> [st EXCEPT !.store = Put(st.store, digest, final_content.bytes),
                            !.cache = Put(st.cache, path, digest)],
          hash |-> digest]

_save_node(path, node_content, st) ==
    IF st.exc # ""
    THEN [st |-> st, hash |-> NoBytes]
    ELSE WriteNode(path, _hash_diget(node_content),
                   _delta_compress(path, _hash_diget(node_content),
                                   node_content, st),
                   st)

(***************************************************************************)
(* The tree serializer                                                     *)
(***************************************************************************)
TreeEntry(node_hash, name) == <<"tree", " ">> \o node_hash \o <<" ", name>>
BlobEntry(node_hash, name) == <<"blob", " ">> \o node_hash \o <<" ", name>>

\* '\n'.join(node_entries) + '\n'
RECURSIVE JoinLines(_)
JoinLines(node_entries) ==
    IF Len(node_entries) = 0 THEN <<>>
    ELSE IF Len(node_entries) = 1 THEN node_entries[1]
    ELSE node_entries[1] \o <<"\n">> \o JoinLines(Tail(node_entries))

NodeContent(node_entries) == JoinLines(node_entries) \o <<"\n">>

_create_blob_node(path, tree, st) == _save_node(path, tree.files[path], st)

RECURSIVE _create_tree_node(_, _, _)
RECURSIVE SubdirEntries(_, _, _, _)
RECURSIVE FileEntries(_, _, _, _)

\* node_entries.append(...): acc is [st, entries], node the [st, hash] of
\* the child just saved
AppendEntry(acc, node, entry_type, name) ==
    [st |-> node.st,
     entries |-> Append(acc.entries,
                        IF entry_type = "tree" THEN TreeEntry(node.hash, name)
                        ELSE BlobEntry(node.hash, name))]

\* the loop over directories
SubdirEntries(directory, directories, tree, acc) ==
    IF Len(directories) = 0 THEN acc
    ELSE IF acc.st.exc # "" THEN acc
    ELSE SubdirEntries(directory, Tail(directories), tree,
             AppendEntry(acc,
                         _create_tree_node(posixjoin(directory, Head(directories)),
                                           tree, acc.st),
                         "tree", Head(directories)))

\* the loop over files
FileEntries(directory, files, tree, acc) ==
    IF Len(files) = 0 THEN acc
    ELSE IF acc.st.exc # "" THEN acc
    ELSE FileEntries(directory, Tail(files), tree,
             AppendEntry(acc,
                         _create_blob_node(posixjoin(directory, Head(files)),
                                           tree, acc.st),
                         "blob", Head(files)))

\* the node of directory itself, once its entries are gathered
SaveTree(directory, all) == _save_node(directory, NodeContent(all.entries), all.st)

_create_tree_node(directory, tree, st) ==
    SaveTree(directory,
        FileEntries(directory, list_files(tree, directory), tree,
            SubdirEntries(directory,
                          list_directories(tree, directory, <<REPO_DIR>>), tree,
                          [st |-> st, entries |-> <<>>])))

\* a variant that hashes the name of the file instead of its bytes
GetBlobHashOfName(path, tree) == _hash_diget(<<path>>)

_get_blob_hash(path, tree) == _hash_diget(tree.files[path])

RECURSIVE _get_tree_hash(_, _)
_get_tree_hash(directory, tree) ==
    LET directories == list_directories(tree, directory, <<REPO_DIR>>)
        files == list_files(tree, directory)
        dirEntries == [i \in 1..Len(directories) |->
            TreeEntry(_get_tree_hash(posixjoin(directory, directories[i]), tree),
                      directories[i])]
        fileEntries == [i \in 1..Len(files) |->
            BlobEntry(_get_blob_hash(posixjoin(directory, files[i]), tree), files[i])]
    IN  _hash_diget(NodeContent(dirEntries \o fileEntries))

(***************************************************************************)
(* HEAD, the branch refs and the catalog                                   *)
(***************************************************************************)
NoName == <<>>      \* None, for a branch argument

list_branches(r) == DOMAIN r

_get_branch_head(r, branch) == r[branch]

\* a variant that reports the HEAD value also for an attached HEAD
CurrentSnapshotHashOfHead(h, r) ==
    [hash |-> h, detached |-> h \notin list_branches(r)]

_current_snapshot_hash(h, r) ==
    IF h \notin list_branches(r)
    THEN [hash |-> h, detached |-> TRUE]
    ELSE [hash |-> _get_branch_head(r, h), detached |-> FALSE]

\* a variant that writes the new hash to every ref file
UpdateAllBranchHeads(r, new_hash, branch) ==
    [b \in DOMAIN r \cup {branch} |-> new_hash]

\* a variant that creates a ref file but never overwrites one
UpdateBranchHeadCreateOnly(r, new_hash, branch) ==
    IF branch \in DOMAIN r THEN r ELSE Put(r, branch, new_hash)

_update_branch_head(r, new_hash, branch) == Put(r, branch, new_hash)

\* a variant that puts the new row in front of the others
InsertSnapshotFirst(cat, obj_hash, h) ==
    <<[id |-> Len(cat) + 1, hash |-> obj_hash, branch |-> h]>> \o cat

\* the row INSERT appends; label, message, user and timestamp are left out
_insert_snapshot(cat, obj_hash, h) ==
    Append(cat, [id |-> Len(cat) + 1, hash |-> obj_hash, branch |-> h])

Hashes(cat) == [i \in 1..Len(cat) |-> cat[i].hash]

\* a variant that settles an ambiguous identifier on its first match
FullHashFirstMatch(partial, cat) ==
    LET matches == get_matches(partial, Hashes(cat))
    IN  IF Len(matches) < 1
        THEN [exc |-> "InvalidHashException", hash |-> NoBytes, results |-> matches]
        ELSE [exc |-> "", hash |-> matches[1], results |-> matches]

_full_hash(partial, cat) ==
    LET matches == get_matches(partial, Hashes(cat))
    IN  IF Len(matches) < 1 \/ Len(matches) > 1
        THEN [exc |-> "InvalidHashException", hash |-> NoBytes, results |-> matches]
        ELSE [exc |-> "", hash |-> matches[1], results |-> matches]

\* _check_dirty: TRUE when it raises DirtyDirectoryException
_check_dirty(tree, h, r) ==
    LET dir_hash == _get_tree_hash(".", tree)
        cur_hash == _current_snapshot_hash(h, r).hash
    IN  cur_hash = dir_hash

\* _match_branch returns the first branch, in the order the filesystem
\* lists refs/heads, whose ref is snapshot_hash: any of these, or None
\* when the set is empty.
_match_branch(r, snapshot_hash) == {b \in list_branches(r) : r[b] = snapshot_hash}

\* _update_files reads self.root, an attribute no Repository has, before
\* it touches the working tree; checkout calls self.update_files(), a method
\* no Repository has.
_update_files(tree) == [exc |-> "AttributeError", tree |-> tree]
update_files(tree) == [exc |-> "AttributeError", tree |-> tree]

(***************************************************************************)
(* The operations, as functions of the state                               *)
(***************************************************************************)
\* snapshot: the state after the call, the exception raised and the value
\* returned.  SnapshotOf is its tail, once the nodes are written (node) and
\* the current snapshot is read (cur).
SnapshotOf(node, cur, h, r, cat, disk) ==
    IF node.st.exc # ""
    THEN [refs |-> r, catalog |-> cat, store |-> node.st.store,
          cache |-> node.st.cache, diskCache |-> disk,
          exc |-> node.st.exc, ret |-> NoBytes]
    ELSE IF cur.hash = node.hash
    THEN [refs |-> r, catalog |-> cat, store |-> node.st.store,
          cache |-> node.st.cache, diskCache |-> disk,
          exc |-> "", ret |-> NoChanges]
    ELSE IF cur.detached
    THEN [refs |-> r, catalog |-> cat, store |-> node.st.store,
          cache |-> node.st.cache, diskCache |-> disk,
          exc |-> "ValueError", ret |-> NoBytes]
    ELSE [refs |-> _update_branch_head(r, node.hash, h),
          catalog |-> _insert_snapshot(cat, node.hash, h),
          store |-> node.st.store,
          cache |-> node.st.cache, diskCache |-> node.st.cache,
          exc |-> "", ret |-> node.hash]

snapshot(tree, h, r, cat, objects, mem, disk) ==
    SnapshotOf(_create_tree_node(".", tree,
                                 [store |-> objects, cache |-> mem, exc |-> ""]),
               _current_snapshot_hash(h, r), h, r, cat, disk)

\* create_branch(name, snapshot): useCurrent stands for snapshot=None
create_branch(name, useCurrent, partial, h, r, cat) ==
    LET full == IF useCurrent
                THEN [exc |-> "", hash |-> _current_snapshot_hash(h, r).hash]
                ELSE _full_hash(partial, cat)
    IN  IF full.exc # "" THEN [exc |-> full.exc, refs |-> r]
        ELSE [exc |-> "", refs |-> _update_branch_head(r, full.hash, name)]

\* switch_branch(name, force)
switch_branch(name, force, tree, h, r) ==
    IF name \notin list_branches(r)
    THEN [exc |-> "ValueError", head |-> h, wt |-> tree]
    ELSE IF ~force /\ _check_dirty(tree, h, r)
    THEN [exc |-> "DirtyDirectoryException", head |-> h, wt |-> tree]
    ELSE LET upd == _update_files(tree)
         IN  [exc |-> upd.exc, head |-> name, wt |-> upd.tree]

\* checkout(checkout_hash, force, branch): the set of outcomes, one for
\* each branch _match_branch may return
checkout(checkout_hash, force, branch, tree, h, r, cat) ==
    LET full == _full_hash(checkout_hash, cat)
        made == IF branch # NoName
                THEN create_branch(branch, FALSE, full.hash, h, r, cat)
                ELSE [exc |-> "", refs |-> r]
        matching == _match_branch(made.refs, full.hash)
    IN  IF full.exc # ""
        THEN {[exc |-> full.exc, head |-> h, refs |-> r, wt |-> tree]}
        ELSE IF ~force /\ _check_dirty(tree, h, r)
        THEN {[exc |-> "DirtyDirectoryException", head |-> h, refs |-> r, wt |-> tree]}
        ELSE IF made.exc # ""
        THEN {[exc |-> made.exc, head |-> h, refs |-> r, wt |-> tree]}
        ELSE IF matching # {}
        THEN {[exc |-> sw.exc, head |-> sw.head, refs |-> made.refs, wt |-> sw.wt] :
                sw \in {switch_branch(b, FALSE, tree, h, made.refs) : b \in matching}}
        ELSE LET upd == update_files(tree)
             IN  {[exc |-> upd.exc, head |-> full.hash, refs |-> made.refs, wt |-> upd.tree]}

(***************************************************************************)
(* The state machine                                                       *)
(***************************************************************************)
IsDigest(x) == Len(x) > 0 /\ x[1] = "#"

\* the record of a call; again tells that the call before it, with nothing
\* in between, was a snapshot that returned a digest
Call(op, arg, name, force, exc, ret) ==
    [op |-> op, arg |-> arg, name |-> name, force |-> force, exc |-> exc, ret |-> ret,
     again |-> (last.op = "snapshot" /\ IsDigest(last.ret))]

\* Repository(root, create=True) on a directory without a repository
Init ==
    /\ wt = [dirs |-> {REPO_DIR}, files |-> EmptyMap]
    /\ head = <<"master">>
    /\ refs = EmptyMap
    /\ catalog = <<>>
    /\ store = EmptyMap
    /\ cache = EmptyMap
    /\ diskCache = EmptyMap
    /\ calls = 0
    /\ last = [op |-> "init", arg |-> NoBytes, name |-> NoName, force |-> FALSE,
               exc |-> "", ret |-> NoBytes, again |-> FALSE]

\* the identifiers a caller passes for a snapshot: the recorded hashes and
\* the first token, which every digest begins with
Partials == {catalog[i].hash : i \in 1..Len(catalog)} \cup {<<"#">>}

ParentOf(path) == IF path = "d/a" THEN "d" ELSE "."

\* the user writes a file of the working tree
WriteFile(path, content) ==
    /\ ParentOf(path) \in wt.dirs \cup {"."}
    /\ IF path \in DOMAIN wt.files THEN wt.files[path] # content ELSE TRUE
    /\ wt' = [wt EXCEPT !.files = Put(wt.files, path, content)]
    /\ last' = Call("edit", NoBytes, NoName, FALSE, "", NoBytes)
    /\ UNCHANGED <<head, refs, catalog, store, cache, diskCache, calls>>

\* the user removes a file
RemoveFile(path) ==
    /\ path \in DOMAIN wt.files
    /\ wt' = [wt EXCEPT !.files = [q \in DOMAIN wt.files \ {path} |-> wt.files[q]]]
    /\ last' = Call("edit", NoBytes, NoName, FALSE, "", NoBytes)
    /\ UNCHANGED <<head, refs, catalog, store, cache, diskCache, calls>>

\* the user creates a directory
MakeDir(dir) ==
    /\ dir \notin wt.dirs
    /\ wt' = [wt EXCEPT !.dirs = wt.dirs \cup {dir}]
    /\ last' = Call("edit", NoBytes, NoName, FALSE, "", NoBytes)
    /\ UNCHANGED <<head, refs, catalog, store, cache, diskCache, calls>>

\* the user removes a directory and what it holds
RemoveDir(dir) ==
    /\ dir \in wt.dirs
    /\ wt' = [dirs |-> wt.dirs \ {dir},
              files |-> [q \in {f \in DOMAIN wt.files : ParentOf(f) # dir} |-> wt.files[q]]]
    /\ last' = Call("edit", NoBytes, NoName, FALSE, "", NoBytes)
    /\ UNCHANGED <<head, refs, catalog, store, cache, diskCache, calls>>

\* a new process opens the repository: Repository(root) loads the saved cache
Reopen ==
    /\ cache # diskCache
    /\ cache' = diskCache
    /\ last' = Call("open", NoBytes, NoName, FALSE, "", NoBytes)
    /\ UNCHANGED <<wt, head, refs, catalog, store, diskCache, calls>>

\* the state after a snapshot() whose outcome is out
SnapshotDone(out) ==
    /\ refs' = out.refs
    /\ catalog' = out.catalog
    /\ store' = out.store
    /\ cache' = out.cache
    /\ diskCache' = out.diskCache
    /\ last' = Call("snapshot", NoBytes, NoName, FALSE, out.exc, out.ret)

Snapshot ==
    /\ calls < MaxCalls
    /\ SnapshotDone(snapshot(wt, head, refs, catalog, store, cache, diskCache))
    /\ calls' = calls + 1
    /\ UNCHANGED <<wt, head>>

\* a variant of create_branch that also saves the PathCache
CreateBranchSavingHashmap(name, useCurrent, partial) ==
    /\ calls < MaxCalls
    /\ LET out == create_branch(name, useCurrent, partial, head, refs, catalog)
       IN  /\ refs' = out.refs
           /\ last' = Call("create_branch", IF useCurrent THEN NoBytes ELSE partial,
                           name, FALSE, out.exc, NoBytes)
    /\ calls' = calls + 1
    /\ diskCache' = cache
    /\ UNCHANGED <<wt, head, catalog, store, cache>>

CreateBranch(name, useCurrent, partial) ==
    /\ calls < MaxCalls
    /\ LET out == create_branch(name, useCurrent, partial, head, refs, catalog)
       IN  /\ refs' = out.refs
           /\ last' = Call("create_branch", IF useCurrent THEN NoBytes ELSE partial,
                           name, FALSE, out.exc, NoBytes)
    /\ calls' = calls + 1
    /\ UNCHANGED <<wt, head, catalog, store, cache, diskCache>>

Checkout(checkout_hash, force, branch) ==
    /\ calls < MaxCalls
    /\ \E out \in checkout(checkout_hash, force, branch, wt, head, refs, catalog) :
           /\ head' = out.head
           /\ refs' = out.refs
           /\ wt' = out.wt
           /\ last' = Call("checkout", checkout_hash, branch, force, out.exc, NoBytes)
    /\ calls' = calls + 1
    /\ UNCHANGED <<catalog, store, cache, diskCache>>

SwitchBranch(name, force) ==
    /\ calls < MaxCalls
    /\ LET out == switch_branch(name, force, wt, head, refs)
       IN  /\ head' = out.head
           /\ wt' = out.wt
           /\ last' = Call("switch_branch", NoBytes, name, force, out.exc, NoBytes)
    /\ calls' = calls + 1
    /\ UNCHANGED <<refs, catalog, store, cache, diskCache>>

Next ==
    \/ \E path \in AllFiles, content \in Contents : WriteFile(path, content)
    \/ \E path \in AllFiles : RemoveFile(path)
    \/ \E dir \in AllDirs : MakeDir(dir)
    \/ \E dir \in AllDirs : RemoveDir(dir)
    \/ Reopen
    \/ Snapshot
    \/ \E name \in BranchNames : CreateBranch(name, TRUE, NoBytes)
    \/ \E name \in BranchNames, partial \in Partials : CreateBranch(name, FALSE, partial)
    \/ \E partial \in Partials, force \in BOOLEAN, branch \in BranchNames \cup {NoName} :
           Checkout(partial, force, branch)
    \/ \E name \in BranchNames, force \in BOOLEAN : SwitchBranch(name, force)

Spec == Init /\ [][Next]_vars

(***************************************************************************)
(* Properties                                                              *)
(***************************************************************************)
Master == <<"master">>
DirHash == _get_tree_hash(".", wt)
Current == _current_snapshot_hash(head, refs)
IsCall(op) == calls' = calls + 1 /\ last'.op = op

\* C1: after init, the first snapshot call succeeds: it appends exactly one
\* catalog row whose hash is the returned root digest, and creates the branch
\* ref master pointing at that digest.
C1_FirstSnapshotSucceeds ==
    (calls = 1 /\ last.op = "snapshot") =>
        /\ last.exc = ""
        /\ IsDigest(last.ret)
        /\ Len(catalog) = 1
        /\ catalog[1].hash = last.ret
        /\ Master \in DOMAIN refs
        /\ refs[Master] = last.ret

\* C2: immediately after init HEAD is attached to master:
\* current_snapshot_hash reports detached = false before any ref is written.
C2_InitAttached ==
    (calls = 0 /\ last.op = "init") => ~Current.detached

\* C3: whenever snapshot returns a root digest D, current_snapshot_hash()
\* immediately afterwards returns (D, detached = false).
C3_SnapshotIsCurrent ==
    (last.op = "snapshot" /\ IsDigest(last.ret)) =>
        Current = [hash |-> last.ret, detached |-> FALSE]

C3_Witness ==
    /\ last.op = "snapshot"
    /\ IsDigest(last.ret)
    /\ Len(catalog) > 0
    /\ catalog[Len(catalog)].hash = last.ret

\* C4: a snapshot call that directly follows a snapshot call which recorded
\* a row, with no change of the working tree in between, returns "no
\* changes", appends no row, changes no branch ref and not HEAD, and writes
\* no object.
C4_SnapshotIdempotent ==
    [][(last.op = "snapshot" /\ IsDigest(last.ret) /\ IsCall("snapshot")) =>
            /\ last'.exc = ""
            /\ last'.ret = NoChanges
            /\ catalog' = catalog
            /\ refs' = refs
            /\ head' = head
            /\ store' = store]_vars

C4_Witness ==
    /\ last.op = "snapshot"
    /\ last.again
    /\ last.ret = NoChanges
    /\ Len(catalog) > 0

\* C5: a snapshot call made while HEAD is detached and the root digest of the
\* working tree differs from the HEAD digest fails with DetachedHead (the
\* ValueError of snapshot), and writes no branch ref, appends no catalog row
\* and does not rewrite the persisted PathCache.
C5_DetachedSnapshotFails ==
    [][(IsCall("snapshot") /\ Current.detached /\ DirHash # Current.hash) =>
            /\ last'.exc = "ValueError"
            /\ refs' = refs
            /\ catalog' = catalog
            /\ diskCache' = diskCache]_vars

\* C6: checkout with force = false fails with DirtyDirectory exactly when the
\* digest of the working tree differs from the current snapshot digest.
C6_DirtyGuard ==
    [][(IsCall("checkout") /\ ~last'.force /\ _full_hash(last'.arg, catalog).exc = "") =>
            ((last'.exc = "DirtyDirectoryException") <=> (DirHash # Current.hash))]_vars

\* No checkout and no switch_branch call returns normally: each ends in an
\* exception, at the latest the AttributeError of the working-tree update.
CheckoutNeverReturns ==
    (last.op \in {"checkout", "switch_branch"}) => last.exc # ""

\* C8: checkout of a uniquely resolvable snapshot with force = true on a dirty
\* working tree completes without raising, and afterwards the working tree is
\* that of the snapshot: the uncommitted edit is gone.
C8_ForcedCheckoutSucceeds ==
    [][(/\ IsCall("checkout")
        /\ last'.force
        /\ _full_hash(last'.arg, catalog).exc = ""
        /\ DirHash # Current.hash) =>
            /\ last'.exc = ""
            /\ _get_tree_hash(".", wt') = _full_hash(last'.arg, catalog).hash]_vars

\* C9: a checkout called with force = true never raises DirtyDirectory, also
\* when it proceeds through switch_branch.
C9_ForceNeverDirty ==
    (last.op = "checkout" /\ last.force) => last.exc # "DirtyDirectoryException"

\* C10: when checkout resolves its identifier to D and the dirty guard does
\* not apply (force, or a clean working tree), HEAD becomes attached to a
\* branch whose ref is D if there is one, and detached at D otherwise.
C10_HeadAfterCheckout ==
    [][(/\ IsCall("checkout")
        /\ _full_hash(last'.arg, catalog).exc = ""
        /\ (last'.force \/ DirHash = Current.hash)) =>
            LET D == _full_hash(last'.arg, catalog).hash
                atD == {b \in DOMAIN refs' : refs'[b] = D}
            IN  IF atD # {} THEN head' \in atD ELSE head' = D]_vars

\* C11: a checkout called with a new branch name, whose identifier resolves to
\* D and whose dirty guard does not apply, returns normally with the branch
\* name created at D and HEAD attached to that very branch, also when other
\* branches already point at D.
C11_CheckoutNewBranch ==
    [][(/\ IsCall("checkout")
        /\ last'.name # NoName
        /\ _full_hash(last'.arg, catalog).exc = ""
        /\ (last'.force \/ DirHash = Current.hash)) =>
            /\ last'.exc = ""
            /\ last'.name \in DOMAIN refs'
            /\ refs'[last'.name] = _full_hash(last'.arg, catalog).hash
            /\ head' = last'.name]_vars

\* the number of catalog rows whose hash begins with the identifier p,
\* compared without regard to case
MatchCount(p) ==
    Cardinality({i \in 1..Len(catalog) :
                    StartsWith(Lower(catalog[i].hash), Lower(p))})

\* C12: a checkout, or a create_branch given an identifier, whose identifier
\* begins no catalog hash or begins two or more of them raises
\* InvalidHashException carrying exactly the matching hashes, and leaves HEAD,
\* the branch refs, the catalog, the object store and the working tree as
\* they were.
C12_InvalidHashNoEffect ==
    [][(/\ calls' = calls + 1
        /\ last'.op \in {"checkout", "create_branch"}
        /\ last'.arg # NoBytes
        /\ MatchCount(last'.arg) # 1) =>
            LET results == _full_hash(last'.arg, catalog).results
            IN  /\ last'.exc = "InvalidHashException"
                /\ Len(results) = MatchCount(last'.arg)
                /\ \A i \in 1..Len(results) :
                      /\ StartsWith(results[i], Lower(last'.arg))
                      /\ \E j \in 1..Len(catalog) : Lower(catalog[j].hash) = results[i]
                /\ UNCHANGED <<head, refs, catalog, store, wt>>]_vars

\* an ambiguous identifier was refused: two recorded snapshots begin with it
C12_Witness ==
    /\ last.op = "checkout"
    /\ last.exc = "InvalidHashException"
    /\ MatchCount(last.arg) >= 2

(***************************************************************************)
(* The catalog under snapshot and create_branch alone: a longer run of     *)
(* these two calls, without checkout and switch_branch.                    *)
(***************************************************************************)
MaxCatalogCalls == 5

CatalogSnapshot ==
    /\ calls < MaxCatalogCalls
    /\ SnapshotDone(snapshot(wt, head, refs, catalog, store, cache, diskCache))
    /\ calls' = calls + 1
    /\ UNCHANGED <<wt, head>>

CatalogCreateBranch(name, useCurrent, partial) ==
    /\ calls < MaxCatalogCalls
    /\ LET out == create_branch(name, useCurrent, partial, head, refs, catalog)
       IN  /\ refs' = out.refs
           /\ last' = Call("create_branch", IF useCurrent THEN NoBytes ELSE partial,
                           name, FALSE, out.exc, NoBytes)
    /\ calls' = calls + 1
    /\ UNCHANGED <<wt, head, catalog, store, cache, diskCache>>

CatalogNext ==
    \/ \E path \in AllFiles, content \in Contents : WriteFile(path, content)
    \/ \E path \in AllFiles : RemoveFile(path)
    \/ \E dir \in AllDirs : MakeDir(dir)
    \/ \E dir \in AllDirs : RemoveDir(dir)
    \/ Reopen
    \/ CatalogSnapshot
    \/ \E name \in BranchNames : CatalogCreateBranch(name, TRUE, NoBytes)
    \/ \E name \in BranchNames, partial \in Partials :
           CatalogCreateBranch(name, FALSE, partial)

SpecCatalog == Init /\ [][CatalogNext]_vars

\* the identifiers resolved: those of Partials, one in upper case and one
\* that begins no digest
Prefixes == Partials \cup {<<"#", "BLOB">>, <<"#", "x">>}

\* the distinct digests recorded in the catalog that begin with p
MatchingDigests(p) ==
    {Lower(catalog[i].hash) : i \in {j \in 1..Len(catalog) :
                                        StartsWith(Lower(catalog[j].hash), Lower(p))}}

\* C13: whenever exactly one distinct digest recorded in the catalog begins
\* with the identifier, compared without regard to case, _full_hash returns
\* that digest, in every state reached by snapshot and create_branch.
C13_ResolveUnique ==
    \A p \in Prefixes :
        Cardinality(MatchingDigests(p)) = 1 =>
            /\ _full_hash(p, catalog).exc = ""
            /\ _full_hash(p, catalog).hash \in MatchingDigests(p)

\* C14: a create_branch of name at a catalogued digest D followed at once by
\* a switch_branch to name that the dirty guard does not stop (force, or a
\* clean working tree) returns normally with HEAD at name and the head of
\* the current branch equal to D; neither call appends a snapshot row.
C14_CreateThenSwitch ==
    [][/\ (/\ IsCall("create_branch")
           /\ last'.arg # NoBytes
           /\ last'.exc = "") =>
               /\ refs'[last'.name] = _full_hash(last'.arg, catalog).hash
               /\ catalog' = catalog
       /\ (/\ IsCall("switch_branch")
           /\ last.op = "create_branch"
           /\ last.arg # NoBytes
           /\ last.exc = ""
           /\ last'.name = last.name
           /\ (last'.force \/ DirHash = Current.hash)) =>
               /\ last'.exc = ""
               /\ head' = last.name
               /\ _current_snapshot_hash(head', refs') =
                      [hash |-> _full_hash(last.arg, catalog).hash, detached |-> FALSE]
               /\ catalog' = catalog]_vars

\* C15: the catalog is append-only.  Every step leaves the rows it finds as
\* they are; a step that adds anything is a snapshot call returning a digest,
\* which adds exactly one row, holding that digest, at the end; and the ids
\* strictly increase in insertion order.
C15_CatalogAppendOnly ==
    [][/\ Len(catalog') >= Len(catalog)
       /\ SubSeq(catalog', 1, Len(catalog)) = catalog
       /\ (catalog' # catalog) =>
              /\ IsCall("snapshot")
              /\ IsDigest(last'.ret)
              /\ Len(catalog') = Len(catalog) + 1
              /\ catalog'[Len(catalog')].hash = last'.ret
       /\ \A i, j \in 1..Len(catalog') : i < j => catalog'[i].id < catalog'[j].id]_vars

\* a second row was appended
C15_Witness ==
    /\ last.op = "snapshot"
    /\ IsDigest(last.ret)
    /\ Len(catalog) >= 2
    /\ catalog[Len(catalog)].hash = last.ret

(***************************************************************************)
(* The objects of a snapshot.  A digest stands for the payload it was      *)
(* computed from, so the objects below a root are those its payload names. *)
(***************************************************************************)
\* the payload whose digest is d
Payload(d) == SubSeq(d, 2, Len(d) - 1)

\* the index in s of the "$" that closes the digest opened before index i,
\* with depth digests open in between
RECURSIVE DigestEnd(_, _, _)
DigestEnd(s, i, depth) ==
    IF s[i] = "#" THEN DigestEnd(s, i + 1, depth + 1)
    ELSE IF s[i] = "$"
    THEN IF depth = 0 THEN i ELSE DigestEnd(s, i + 1, depth - 1)
    ELSE DigestEnd(s, i + 1, depth)

\* the entries '<kind> <digest> <name>\n' of a tree payload
RECURSIVE EntriesOf(_)
EntriesOf(content) ==
    IF Len(content) < 6 THEN {}
    ELSE LET end == DigestEnd(content, 4, 0)
         IN  {[kind |-> content[1], hash |-> SubSeq(content, 3, end),
               name |-> content[end + 2]]}
                 \cup EntriesOf(SubSeq(content, end + 4, Len(content)))

\* the digests of the node d of the given kind and of all nodes below it
RECURSIVE Reachable(_, _)
Reachable(d, kind) ==
    {d} \cup IF kind = "tree"
             THEN UNION {Reachable(e.hash, e.kind) : e \in EntriesOf(Payload(d))}
             ELSE {}

\* the digests of all objects of all recorded snapshots
SnapshotObjects == UNION {Reachable(catalog[i].hash, "tree") : i \in 1..Len(catalog)}

\* C16: every object of every recorded snapshot, tree or blob, current or
\* historical, is read back as the bytes whose digest it is named by.
C16_ObjectsReadable ==
    \A d \in SnapshotObjects :
        /\ _read_object(d, store).exc = ""
        /\ _hash_diget(_read_object(d, store).bytes) = d

\* the paths a snapshot stores a node for
NodePaths == {"."} \cup AllFiles \cup AllDirs

\* the digest of the node a snapshot of tree stores for path
NodeHash(path, tree) ==
    IF path \in DOMAIN tree.files THEN _get_blob_hash(path, tree)
    ELSE _get_tree_hash(path, tree)

\* C17: when a snapshot stores, for a path whose cached digest is d_old, a
\* payload with another digest d_new, then afterwards the object file at
\* d_new holds the payload itself, the object file at d_old holds the
\* envelope (d_new, patch), and the path's cached digest is d_new.
C17_DeltaStep ==
    [][IsCall("snapshot") =>
          \A path \in NodePaths :
              (/\ path \in DOMAIN cache
               /\ path \in DOMAIN cache'
               /\ cache'[path] # cache[path]) =>
                  /\ cache'[path] = NodeHash(path, wt)
                  /\ cache'[path] \in DOMAIN store'
                  /\ store'[cache'[path]] = Payload(cache'[path])
                  /\ cache[path] \in DOMAIN store'
                  /\ IsPickle(store'[cache[path]])
                  /\ loads(store'[cache[path]])[1] = cache'[path]]_vars

\* the object file at digest d holds the bytes whose digest is d
Fresh(d, objects) == d \in DOMAIN objects /\ _hash_diget(objects[d]) = d

\* the digests from which the origin links of the envelopes lead to target
\* in one or more steps
RECURSIVE LeadsTo(_, _, _, _)
LeadsTo(d, target, objects, seen) ==
    /\ d \in DOMAIN objects
    /\ ~Fresh(d, objects)
    /\ IsPickle(objects[d])
    /\ d \notin seen
    /\ IF loads(objects[d])[1] = target THEN TRUE
       ELSE LeadsTo(loads(objects[d])[1], target, objects, seen \cup {d})

\* C18: for every path in the PathCache, the object file at its cached
\* digest, the version of the path stored last, is fresh, and no other
\* object on the delta chain that ends there is fresh.
C18_NewestIsFresh ==
    \A path \in DOMAIN cache :
        /\ Fresh(cache[path], store)
        /\ \A d \in DOMAIN store :
              (d # cache[path] /\ LeadsTo(d, cache[path], store, {})) =>
                  ~Fresh(d, store)

\* following the origin links from d ends at a fresh object without coming
\* back to a digest in seen or to d itself
RECURSIVE Terminates(_, _, _)
Terminates(d, objects, seen) ==
    /\ d \in DOMAIN objects
    /\ IF Fresh(d, objects) THEN TRUE
       ELSE /\ IsPickle(objects[d])
            /\ loads(objects[d])[1] \notin seen \cup {d}
            /\ Terminates(loads(objects[d])[1], objects, seen \cup {d})

\* C19: delta chains are acyclic and end: from every delta object in the
\* store the origin links lead, without visiting a digest twice, to a fresh
\* object; no envelope names its own digest as origin.
C19_ChainsTerminate ==
    \A d \in DOMAIN store :
        ~Fresh(d, store) =>
            /\ IsPickle(store[d])
            /\ loads(store[d])[1] # d
            /\ Terminates(d, store, {})

\* C20: a snapshot changes the bytes of an object file that exists already
\* only at the previous digest of a path whose version changed, and never at
\* a digest it stores a node under: an existing object at a new digest,
\* possibly current for another path, keeps its bytes.
C20_SharedObjectsKept ==
    [][IsCall("snapshot") =>
          \A d \in DOMAIN store :
              (d \in DOMAIN store' /\ store'[d] # store[d]) =>
                  /\ \E path \in DOMAIN cache : cache[path] = d /\ cache'[path] # d
                  /\ \A path \in DOMAIN cache' : cache'[path] # d]_vars

(***************************************************************************)
(* The object store under snapshots of a tree with two files, one of them  *)
(* in the directory: the same bytes can be stored for two paths.           *)
(***************************************************************************)
MaxStoreCalls == 3

StoreFiles == {"a", "d/a"}

StoreSnapshot ==
    /\ calls < MaxStoreCalls
    /\ SnapshotDone(snapshot(wt, head, refs, catalog, store, cache, diskCache))
    /\ calls' = calls + 1
    /\ UNCHANGED <<wt, head>>

\* create_branch('master') of the current snapshot, once, on the new repository
StoreCreateBranch ==
    /\ calls = 0
    /\ LET out == create_branch(Master, TRUE, NoBytes, head, refs, catalog)
       IN  /\ refs' = out.refs
           /\ last' = Call("create_branch", NoBytes, Master, FALSE, out.exc, NoBytes)
    /\ calls' = calls + 1
    /\ UNCHANGED <<wt, head, catalog, store, cache, diskCache>>

StoreNext ==
    \/ \E path \in StoreFiles, content \in Contents : WriteFile(path, content)
    \/ \E path \in StoreFiles : RemoveFile(path)
    \/ \E dir \in AllDirs : MakeDir(dir)
    \/ \E dir \in AllDirs : RemoveDir(dir)
    \/ Reopen
    \/ StoreSnapshot
    \/ StoreCreateBranch

SpecStore == Init /\ [][StoreNext]_vars

\* the paths of the nodes of tree: the root, its directories and its files
NodesOf(tree) == {"."} \cup (tree.dirs \ {REPO_DIR}) \cup DOMAIN tree.files

\* C21: when a snapshot stores a file at a path new to the PathCache whose
\* bytes are those of a blob the store already holds, every object file it
\* creates is the node of another path of the tree, none is created for the
\* file, and the shared blob object is fresh afterwards.
C21_Deduplication ==
    [][IsCall("snapshot") =>
          \A path \in DOMAIN wt.files :
              (/\ path \notin DOMAIN cache
               /\ path \in DOMAIN cache'
               /\ _get_blob_hash(path, wt) \in DOMAIN store) =>
                  /\ \A k \in DOMAIN store' \ DOMAIN store :
                        \E q \in NodesOf(wt) \ {path} :
                            IF q \in DOMAIN wt.files
                            THEN _get_blob_hash(q, wt) = k
                            ELSE _get_tree_hash(q, wt) = k
                  /\ Fresh(_get_blob_hash(path, wt), store')]_vars

\* what _create_tree_node('.') returns and writes in the present state
SnapshotTree ==
    _create_tree_node(".", wt, [store |-> store, cache |-> cache, exc |-> ""])

\* C22: whenever _create_tree_node returns a root digest for the working
\* tree, it is the digest _get_tree_hash returns for the same tree, whatever
\* the PathCache and the object store hold.
C22_HashOnlyAgrees ==
    SnapshotTree.st.exc = "" => SnapshotTree.hash = _get_tree_hash(".", wt)

\* a tree with a file in the root and one in the directory, to be stored
\* over a PathCache that knows other versions and a store holding a delta
C22_Witness ==
    /\ SnapshotTree.st.exc = ""
    /\ DOMAIN wt.files = StoreFiles
    /\ "." \in DOMAIN cache
    /\ cache["."] # SnapshotTree.hash
    /\ \E d \in DOMAIN store : ~Fresh(d, store)
    /\ SnapshotTree.st.store # store

\* C23: the object store and the PathCache, in memory and persisted, are
\* written by snapshot alone: a create_branch, checkout or switch_branch
\* call, with the dirty check and the tree hashing it performs, leaves all
\* three as they were, and no step but a snapshot call changes an object
\* file or the persisted PathCache.
C23_OnlySnapshotWrites ==
    [][/\ (calls' = calls + 1 /\ last'.op # "snapshot") =>
              UNCHANGED <<store, cache, diskCache>>
       /\ (store' # store \/ diskCache' # diskCache) => IsCall("snapshot")]_vars

\* a create_branch, checkout or switch_branch call was made on a repository
\* whose store holds objects and whose PathCache in memory is ahead of the
\* persisted one
C23_Witness ==
    /\ last.op \in {"create_branch", "checkout", "switch_branch"}
    /\ store # EmptyMap
    /\ cache # diskCache
    /\ calls >= 3

\* C24: a snapshot that returns a digest leaves HEAD as it was, attached to
\* the same branch, writes the digest to the ref of that branch, and leaves
\* every other ref file as it was; it creates and removes no ref file.
C24_SnapshotFrame ==
    [][(IsCall("snapshot") /\ IsDigest(last'.ret)) =>
          /\ head' = head
          /\ ~_current_snapshot_hash(head, refs).detached
          /\ ~_current_snapshot_hash(head', refs').detached
          /\ DOMAIN refs' = DOMAIN refs
          /\ refs'[head] = last'.ret
          /\ \A b \in DOMAIN refs \ {head} : refs'[b] = refs[b]]_vars

\* a snapshot was recorded while another branch existed, whose ref differs
C24_Witness ==
    /\ last.op = "snapshot"
    /\ IsDigest(last.ret)
    /\ \E b \in DOMAIN refs : b # head /\ refs[b] # refs[head]

(***************************************************************************)
(* snapshot statement by statement, with the process dying in between.     *)
(* While a snapshot is under way last.op tells the statement reached and   *)
(* last.ret holds top_hash.                                                *)
(***************************************************************************)
MaxStepCalls == 4

InSnapshot == {"snapshot@objects", "snapshot@hashmap", "snapshot@ref"}

\* no call is under way
Idle == last.op \notin InSnapshot

\* snapshot up to its last read: the nodes are written, the current snapshot
\* is compared, and the call either ends here or goes on to its writes
\* where the snapshot before this call was interrupted, if the call follows
\* a crash at once: kept as the arg of the call's record
After == IF last.op = "crash" THEN last.arg ELSE NoBytes

SnapshotBegun(node, cur) ==
    /\ store' = node.st.store
    /\ cache' = node.st.cache
    /\ last' = IF node.st.exc # ""
               THEN Call("snapshot", After, NoName, FALSE, node.st.exc, NoBytes)
               ELSE IF cur.hash = node.hash
               THEN Call("snapshot", After, NoName, FALSE, "", NoChanges)
               ELSE IF cur.detached
               THEN Call("snapshot", After, NoName, FALSE, "ValueError", NoBytes)
               ELSE Call("snapshot@objects", After, NoName, FALSE, "", node.hash)

BeginSnapshot ==
    /\ Idle
    /\ calls < MaxStepCalls
    /\ SnapshotBegun(SnapshotTree, _current_snapshot_hash(head, refs))
    /\ calls' = calls + 1
    /\ UNCHANGED <<wt, head, refs, catalog, diskCache>>

\* a variant that writes the branch ref together with the PathCache
SaveHashmapAndRefStep ==
    /\ last.op = "snapshot@objects"
    /\ diskCache' = cache
    /\ refs' = _update_branch_head(refs, last.ret, head)
    /\ last' = Call("snapshot@hashmap", last.arg, NoName, FALSE, "", last.ret)
    /\ UNCHANGED <<wt, head, catalog, store, cache, calls>>

\* self._save_hashmap()
SaveHashmapStep ==
    /\ last.op = "snapshot@objects"
    /\ diskCache' = cache
    /\ last' = Call("snapshot@hashmap", last.arg, NoName, FALSE, "", last.ret)
    /\ UNCHANGED <<wt, head, refs, catalog, store, cache, calls>>

\* self._update_branch_head(top_hash)
UpdateBranchHeadStep ==
    /\ last.op = "snapshot@hashmap"
    /\ refs' = _update_branch_head(refs, last.ret, head)
    /\ last' = Call("snapshot@ref", last.arg, NoName, FALSE, "", last.ret)
    /\ UNCHANGED <<wt, head, catalog, store, cache, diskCache, calls>>

\* self._insert_snapshot(top_hash, ...); return top_hash
InsertSnapshotStep ==
    /\ last.op = "snapshot@ref"
    /\ catalog' = _insert_snapshot(catalog, last.ret, head)
    /\ last' = Call("snapshot", last.arg, NoName, FALSE, "", last.ret)
    /\ UNCHANGED <<wt, head, refs, store, cache, diskCache, calls>>

\* a variant in which the reopened repository starts with an empty PathCache
CrashLosingHashmap ==
    /\ ~Idle
    /\ cache' = EmptyMap
    /\ last' = Call("crash", <<last.op>>, NoName, FALSE, "", last.ret)
    /\ UNCHANGED <<wt, head, refs, catalog, store, diskCache, calls>>

\* the process dies during a snapshot and the repository is opened again:
\* the files stay, the PathCache in memory is the persisted one
Crash ==
    /\ ~Idle
    /\ cache' = diskCache
    /\ last' = Call("crash", <<last.op>>, NoName, FALSE, "", last.ret)
    /\ UNCHANGED <<wt, head, refs, catalog, store, diskCache, calls>>

StepsCreateBranch(name) ==
    /\ Idle
    /\ calls < MaxStepCalls
    /\ LET out == create_branch(name, TRUE, NoBytes, head, refs, catalog)
       IN  /\ refs' = out.refs
           /\ last' = Call("create_branch", NoBytes, name, FALSE, out.exc, NoBytes)
    /\ calls' = calls + 1
    /\ UNCHANGED <<wt, head, catalog, store, cache, diskCache>>

StepsNext ==
    \/ Idle /\ \E path \in AllFiles, content \in Contents : WriteFile(path, content)
    \/ Idle /\ \E path \in AllFiles : RemoveFile(path)
    \/ Idle /\ \E dir \in AllDirs : MakeDir(dir)
    \/ Idle /\ \E dir \in AllDirs : RemoveDir(dir)
    \/ Idle /\ Reopen
    \/ \E name \in BranchNames : StepsCreateBranch(name)
    \/ BeginSnapshot
    \/ SaveHashmapStep
    \/ UpdateBranchHeadStep
    \/ InsertSnapshotStep
    \/ Crash

SpecSteps == Init /\ [][StepsNext]_vars

\* C25: within snapshot the object files are written first, then the
\* PathCache is persisted, then the branch ref is written, then the catalog
\* row is appended.  The step that persists the PathCache finds every node
\* of the tree in the store and writes nothing else; the step that writes
\* the ref finds the PathCache persisted; the step that appends the row for
\* a digest finds the ref holding that digest; and up to the ref write,
\* also when the process dies there, no ref and no row is written.
C25_WriteOrder ==
    [][/\ (diskCache' # diskCache) =>
              /\ \A path \in NodesOf(wt) : NodeHash(path, wt) \in DOMAIN store
              /\ UNCHANGED <<store, refs, catalog>>
       /\ (refs' # refs /\ last'.op # "create_branch") =>
              /\ diskCache = cache
              /\ refs' = Put(refs, head, last.ret)
              /\ UNCHANGED <<store, diskCache, catalog>>
       /\ (catalog' # catalog) =>
              /\ head \in DOMAIN refs
              /\ refs[head] = catalog'[Len(catalog')].hash
              /\ UNCHANGED <<store, diskCache, refs>>
       /\ (\/ last'.op \in {"snapshot@objects", "snapshot@hashmap"}
           \/ (last'.op = "crash" /\ last.op \in {"snapshot@objects", "snapshot@hashmap"})) =>
              UNCHANGED <<refs, catalog>>]_vars

\* the process died after the PathCache was persisted with the new root and
\* before the ref was written
C25_Witness ==
    /\ last.op = "crash"
    /\ last.arg = <<"snapshot@hashmap">>
    /\ head \in DOMAIN refs
    /\ refs[head] # last.ret
    /\ diskCache["."] = last.ret
    /\ \A i \in 1..Len(catalog) : catalog[i].hash # last.ret

\* C26 as stated: the snapshot that follows at once, on the unchanged tree,
\* a crash between the persisting of the PathCache and the ref write ends
\* at its checks: it goes on to no ref write and no catalog row.
C26_NextSnapshotNoOp ==
    [][(/\ last.op = "crash"
        /\ last.arg = <<"snapshot@hashmap">>
        /\ calls' = calls + 1
        /\ last'.op \in {"snapshot"} \cup InSnapshot) =>
            last'.op = "snapshot"]_vars

\* C26 amended: the snapshot that follows at once, on the unchanged tree, a
\* crash between the persisting of the PathCache and the ref write writes no
\* object file and no PathCache entry, yet it is no no-op: the ref still
\* holds the old digest, so the call goes on with the interrupted digest
\* and, run to its end, writes it to the branch ref, appends its catalog
\* row and returns it.
C26_NextSnapshotRecords ==
    [][/\ (/\ last.op = "crash"
           /\ last.arg = <<"snapshot@hashmap">>
           /\ calls' = calls + 1
           /\ last'.op \in {"snapshot"} \cup InSnapshot) =>
               /\ UNCHANGED <<store, cache, diskCache, refs, catalog>>
               /\ last'.op = "snapshot@objects"
               /\ last'.ret = last.ret
               /\ refs[head] # last.ret
       /\ (/\ last'.op = "snapshot"
           /\ last.op = "snapshot@ref"
           /\ last.arg = <<"snapshot@hashmap">>) =>
               /\ last'.exc = ""
               /\ last'.ret = last.ret
               /\ refs'[head'] = last.ret
               /\ catalog' = Append(catalog, catalog'[Len(catalog')])
               /\ catalog'[Len(catalog')].hash = last.ret]_vars

\* the snapshot after such a crash has run to its end
C26_Witness ==
    /\ last.op = "snapshot"
    /\ last.arg = <<"snapshot@hashmap">>
    /\ IsDigest(last.ret)
    /\ catalog[Len(catalog)].hash = last.ret

\* C27: every branch ref file holds a digest, and that digest is the hash of
\* a catalog row: never a branch name, an empty value or another string.
C27_RefsHoldCatalogDigests ==
    \A b \in DOMAIN refs :
        /\ IsDigest(refs[b])
        /\ \E i \in 1..Len(catalog) : catalog[i].hash = refs[b]

\* C28: the digest of a branch ref that exists changes only by a snapshot
\* call made while HEAD is attached to that branch; no create_branch, also
\* with the name of an existing branch, and no checkout changes it or
\* removes the ref.
C28_RefsMoveBySnapshotOnly ==
    [][\A b \in DOMAIN refs :
          /\ b \in DOMAIN refs'
          /\ (refs'[b] # refs[b]) => (IsCall("snapshot") /\ head = b)]_vars

(***************************************************************************)
(* Tree lines character by character: a string is the sequence of its      *)
(* characters.  The serializer's lines are parsed as _build_tree parses    *)
(* them.                                                                   *)
(***************************************************************************)
MaxEntries == 2

\* the length of a hex digest
HexLen == 40

LineKinds == {<<"t", "r", "e", "e">>, <<"b", "l", "o", "b">>}
LineDigests == {[i \in 1..HexLen |-> "a"],
                [i \in 1..HexLen |-> IF i = HexLen THEN "f" ELSE "0"]}
\* file names: plain, with a space inside, with a leading and a trailing space
LineNames == {<<"a">>, <<"a", " ", "b">>, <<" ", "a">>, <<"a", " ">>}

LineEntries == [kind : LineKinds, hash : LineDigests, name : LineNames]

\* the characters str.rstrip() strips
Whitespace == {" ", "\t", "\n", "\r"}

RECURSIVE rstrip(_)
rstrip(s) ==
    IF Len(s) > 0 /\ s[Len(s)] \in Whitespace
    THEN rstrip(SubSeq(s, 1, Len(s) - 1))
    ELSE s

\* s[from:to] of Python, for 0 <= from <= to
Slice(s, from, to) == SubSeq(s, from + 1, IF to < Len(s) THEN to ELSE Len(s))

\* '{} {} {}'.format(kind, node_hash, name), kind being 'tree' or 'blob'
FormatLine(entry) == entry.kind \o <<" ">> \o entry.hash \o <<" ">> \o entry.name

\* '\n'.join(node_entries) + '\n', on lines of characters
RECURSIVE JoinChars(_)
JoinChars(lines) ==
    IF Len(lines) = 0 THEN <<>>
    ELSE IF Len(lines) = 1 THEN lines[1]
    ELSE lines[1] \o <<"\n">> \o JoinChars(Tail(lines))

TreePayload(entries) ==
    JoinChars([i \in 1..Len(entries) |-> FormatLine(entries[i])]) \o <<"\n">>

\* the positions of the newlines of s
Newlines(s) == {i \in 1..Len(s) : s[i] = "\n"}

\* the position of the k-th newline of s; 0 before the first, Len(s) + 1
\* after the last
NthNewline(s, k) ==
    IF k = 0 THEN 0
    ELSE IF k > Cardinality(Newlines(s)) THEN Len(s) + 1
    ELSE CHOOSE p \in Newlines(s) : Cardinality({q \in Newlines(s) : q < p}) = k - 1

\* content.split('\n')
SplitLines(s) ==
    [k \in 1..(Cardinality(Newlines(s)) + 1) |->
        SubSeq(s, NthNewline(s, k - 1) + 1, NthNewline(s, k) - 1)]

_parse_tree_line(line) ==
    [kind |-> rstrip(Slice(rstrip(line), 0, 5)),
     hash |-> rstrip(Slice(rstrip(line), 5, HexLen + 6)),
     name |-> rstrip(Slice(rstrip(line), HexLen + 6, Len(line)))]

\* the (obj_type, obj_hash, obj_name) _build_tree gets for each line of content
_build_tree(content) ==
    [i \in 1..Len(SplitLines(rstrip(content))) |->
        _parse_tree_line(SplitLines(rstrip(content))[i])]

\* _build_tree is given the payload the serializer writes for entries
ParseTree(entries) ==
    /\ last' = [op |-> "_build_tree", arg |-> entries, name |-> NoName,
                force |-> FALSE, exc |-> "", ret |-> _build_tree(TreePayload(entries)),
                again |-> FALSE]
    /\ UNCHANGED <<wt, head, refs, catalog, store, cache, diskCache, calls>>

ParseNext ==
    \E n \in 1..MaxEntries : \E entries \in [1..n -> LineEntries] : ParseTree(entries)

SpecParse == Init /\ [][ParseNext]_vars

\* C29: for every sequence of entries the serializer writes as a tree
\* payload, with names that may begin or end with a space, the parser of
\* _build_tree recovers the same kind, digest and name for every line.
C29_LineRoundTrip ==
    (last.op = "_build_tree") => last.ret = last.arg

\* C30: a snapshot called on an attached HEAD ends normally, however many
\* versions of a path came before: it raises nothing and returns the new
\* root digest or 'No changes'.
C30_SnapshotTerminates ==
    [][(IsCall("snapshot") /\ ~Current.detached) =>
          /\ last'.exc = ""
          /\ (IsDigest(last'.ret) \/ last'.ret = NoChanges)]_vars

\* the digests held in a path cache
CachedDigests(mem) == {mem[path] : path \in DOMAIN mem}

\* C31: no object file is ever deleted, and in every reachable state each
\* digest held in the path cache, in memory or persisted, and each hash
\* recorded in the catalog has an object file in the store.
C31_ObjectsPresent ==
    /\ [](/\ CachedDigests(cache) \subseteq DOMAIN store
          /\ CachedDigests(diskCache) \subseteq DOMAIN store
          /\ \A i \in 1..Len(catalog) : catalog[i].hash \in DOMAIN store)
    /\ [][DOMAIN store \subseteq DOMAIN store']_vars

\* two snapshots are recorded, the path cache is persisted, and an object
\* file written earlier has been overwritten by a delta envelope
C31_Witness ==
    /\ last.op = "snapshot"
    /\ Len(catalog) >= 2
    /\ "a" \in DOMAIN diskCache
    /\ "a" \in DOMAIN cache
    /\ \E d \in DOMAIN store : ~Fresh(d, store)

====
